---- MODULE Spec2Model ----
(***************************************************************************)
(* Model of github.com/jcuvillier/timer: the three iterations of the       *)
(* concurrent execution engine.                                            *)
(*   "ctx"    Run(ctx, f, n, p)      context variant                       *)
(*   "strict" Run(f, n, p)           strict finite-count variant           *)
(*   "timer"  New(n, c); t.Run(f)    Timer variant (timer.go)              *)
(* Goroutines: the caller (main, inside Run), the launcher, the            *)
(* completion waiter (strict/timer) and one worker per invocation.         *)
(* durC, errC and doneC are unbuffered: a send and its receive are one     *)
(* joint step of the sender and of the aggregation loop.  poolC is         *)
(* buffered with capacity p and is modelled by the number of tokens in it. *)
(***************************************************************************)
EXTENDS Integers, Sequences, FiniteSets, TLC

\* ---- bounds of the model ----
MaxN == 2
MaxP == 2
MaxDur == 2
MaxRuns == 2
\* cap on the number of worker goroutines spawned in one run
MaxStarted == MaxN + 1

Variants == {"ctx", "strict", "timer"}
NValues == (0 - 1) .. MaxN
PValues == (0 - 1) .. MaxP
Durations == 1 .. MaxDur

VARIABLES
  variant,    \* which entry point the caller uses
  n, p,       \* the arguments n and p (t.num and t.conc for the Timer)
  mainpc,     \* caller: "idle", "new", "loop", "returned", "failed", "panic"
  cancelled,  \* ctx.Done() is closed
  observed,   \* the aggregation loop left through the ctx.Done() branch
  lpc,        \* launcher goroutine: "none", "run", "end"
  i,          \* the launcher's loop variable
  wpc,        \* waiter goroutine: "none", "wait", "send", "end"
  wg,         \* the WaitGroup counter
  poolC,      \* number of tokens buffered in poolC
  workers,    \* sequence of worker goroutines, in spawn order
  k,          \* completions counted by the aggregation loop (context variant)
  durations,  \* r.durations / t.durations
  errs,       \* r.errs / t.errs
  num,        \* r.num / t.num
  retReport,  \* returned *Report: "nil" or "r"
  retErr,     \* returned error: "nil" or the message
  runs        \* number of calls of Run that have gone past the argument check

vars == <<variant, n, p, mainpc, cancelled, observed, lpc, i, wpc, wg, poolC,
          workers, k, durations, errs, num, retReport, retErr, runs>>

W == DOMAIN workers

\* ---- pure helpers ----

\* a sort with the comparison reversed
SortedDescending(s) == SortSeq(s, LAMBDA a, b : a > b)

\* sort.Slice(durations, func(i, j) bool { return durations[i] < durations[j] })
Sorted(s) == SortSeq(s, LAMBDA a, b : a < b)

\* Executions() returns the num field
Executions == num

\* the outcome of a statistic: the duration it returns, or the panic it ends in
Returns(d) == [fails |-> "none", value |-> d]
Panics(msg) == [fails |-> msg, value |-> 0]
IndexPanic == Panics("panic: index out of range")
DividePanic == Panics("panic: integer divide by zero")
QuantilePanic == Panics("panic: quantile must be between 0 and 100")

\* Min(): r.durations[0]
Min == IF Len(durations) = 0 THEN IndexPanic ELSE Returns(durations[1])

\* Max(): r.durations[len(r.durations)-1]
Max ==
  IF Len(durations) = 0 THEN IndexPanic
  ELSE Returns(durations[Len(durations)])

\* Mean(): the sum of r.durations ...
RECURSIVE Total(_)
Total(s) == IF s = <<>> THEN 0 ELSE Head(s) + Total(Tail(s))

\* ... divided by int64(len(r.durations))
Mean ==
  IF Len(durations) = 0 THEN DividePanic
  ELSE Returns(Total(durations) \div Len(durations))

\* Quantile: index := q * len(r.durations) / 100 (0-based)
QuantileIndex(q) == (q * Len(durations)) \div 100

\* Quantile(q): panics outside 0..100, else r.durations[index]
Quantile(q) ==
  IF q < 0 \/ q > 100 THEN QuantilePanic
  ELSE IF QuantileIndex(q) >= Len(durations) THEN IndexPanic
  ELSE Returns(durations[QuantileIndex(q) + 1])

\* the loop condition of the context variant's launcher: break if n > 0 && i > n
LauncherBreak == n > 0 /\ i > n

\* a launcher that stops one iteration early
LauncherContinueShort == i < n - 1

\* the loop condition of the strict and Timer launchers: i < n
LauncherContinue == i < n

\* a launcher that does not wait for a pool slot
PoolAlwaysHasRoom == TRUE

\* poolC <- true can proceed: a free place in the buffer
PoolHasRoom == poolC < p

\* a loop that leaves one completion early
BreakOnCountOffByOne(kk) == n > 0 /\ kk + 1 >= n

\* a loop that forgets the n > 0 test
BreakOnCountAnyN(kk) == kk >= n

\* the aggregation loop of the context variant: if n > 0 && k >= n { break L }
BreakOnCount(kk) == n > 0 /\ kk >= n

\* a select without the ctx.Done() case
CtxDoneNeverReady == FALSE

\* the ctx.Done() case of the select
CtxDoneReady == cancelled

\* the argument checks
CtxArgsInvalid == p <= 0

\* a check that forgets to compare n with p
StrictArgsErrorNoOrder ==
  IF n <= 0 THEN "n must be positive"
  ELSE IF p <= 0 THEN "p must be positive"
  ELSE "nil"

StrictArgsError ==
  IF n <= 0 THEN "n must be positive"
  ELSE IF p <= 0 THEN "p must be positive"
  ELSE IF n < p THEN "n must be greater or equal than p"
  ELSE "nil"

\* ---- initial state ----
Init ==
  /\ variant \in Variants
  /\ n \in NValues
  /\ p \in PValues
  /\ mainpc = "idle"
  /\ cancelled = FALSE
  /\ observed = FALSE
  /\ lpc = "none"
  /\ i = 0
  /\ wpc = "none"
  /\ wg = 0
  /\ poolC = 0
  /\ workers = <<>>
  /\ k = 0
  /\ durations = <<>>
  /\ errs = <<>>
  /\ num = 0
  /\ retReport = "nil"
  /\ retErr = "nil"
  /\ runs = 0

\* ---- the caller ----

\* Run(ctx, f, n, p): argument check, report creation, launcher started
RunCtx ==
  /\ variant = "ctx"
  /\ mainpc = "idle"
  /\ IF CtxArgsInvalid
     THEN /\ mainpc' = "failed"
          /\ retErr' = "p must be positive"
          /\ UNCHANGED <<lpc, runs>>
     ELSE /\ mainpc' = "loop"
          /\ lpc' = "run"
          /\ runs' = runs + 1
          /\ UNCHANGED retErr
  /\ UNCHANGED <<variant, n, p, cancelled, observed, i, wpc, wg, poolC,
                 workers, k, durations, errs, num, retReport>>

\* Run(f, n, p): argument check, wg.Add(n), report creation, launcher and
\* waiter started
RunStrict ==
  /\ variant = "strict"
  /\ mainpc = "idle"
  /\ IF StrictArgsError # "nil"
     THEN /\ mainpc' = "failed"
          /\ retErr' = StrictArgsError
          /\ UNCHANGED <<lpc, wpc, wg, num, runs>>
     ELSE /\ mainpc' = "loop"
          /\ wg' = wg + n
          /\ num' = n
          /\ lpc' = "run"
          /\ wpc' = "wait"
          /\ runs' = runs + 1
          /\ UNCHANGED retErr
  /\ UNCHANGED <<variant, n, p, cancelled, observed, i, poolC, workers, k,
                 durations, errs, retReport>>

\* New(n, c): make([]time.Duration, 0, n) panics for a negative n
New ==
  /\ variant = "timer"
  /\ mainpc = "idle"
  /\ IF n < 0
     THEN mainpc' = "panic" /\ UNCHANGED num
     ELSE mainpc' = "new" /\ num' = n
  /\ UNCHANGED <<variant, n, p, cancelled, observed, lpc, i, wpc, wg, poolC,
                 workers, k, durations, errs, retReport, retErr, runs>>

\* t.Run(f), up to the aggregation loop: wg.Add(t.num), make(chan bool,
\* t.conc) (panics for a negative size), launcher and waiter started.  No
\* argument is checked.  When Run is called again every goroutine of the
\* previous run has ended or has only to leave its loop, so the worker list,
\* the launcher and the waiter are those of the new run; durations and errs
\* are the Timer's and are kept.
TimerRun ==
  /\ variant = "timer"
  /\ mainpc \in {"new", "returned"}
  /\ runs < MaxRuns
  /\ IF p < 0
     THEN /\ mainpc' = "panic"
          /\ wg' = wg + num
          /\ UNCHANGED <<lpc, i, wpc, poolC, workers, runs>>
     ELSE /\ mainpc' = "loop"
          /\ wg' = wg + num
          /\ poolC' = 0
          /\ workers' = <<>>
          /\ lpc' = "run"
          /\ i' = 0
          /\ wpc' = "wait"
          /\ runs' = runs + 1
  /\ UNCHANGED <<variant, n, p, cancelled, observed, k, durations, errs, num,
                 retReport, retErr>>

\* the environment cancels ctx (explicitly or by its deadline)
Cancel ==
  /\ variant = "ctx"
  /\ mainpc \in {"idle", "loop"}
  /\ ~cancelled
  /\ cancelled' = TRUE
  /\ UNCHANGED <<variant, n, p, mainpc, observed, lpc, i, wpc, wg, poolC,
                 workers, k, durations, errs, num, retReport, retErr, runs>>

\* ---- the launcher goroutine ----

NewWorker == [pc |-> "spawned"]

\* context variant: for { if n > 0 && i > n { break }; poolC <- true;
\* go execAndTimeFunction(...) } ; i is never incremented
LaunchCtx ==
  /\ variant = "ctx"
  /\ lpc = "run"
  /\ IF LauncherBreak
     THEN /\ lpc' = "end"
          /\ UNCHANGED <<poolC, workers>>
     ELSE /\ PoolHasRoom
          /\ Len(workers) < MaxStarted
          /\ poolC' = poolC + 1
          /\ workers' = Append(workers, NewWorker)
          /\ UNCHANGED lpc
  /\ UNCHANGED <<variant, n, p, mainpc, cancelled, observed, i, wpc, wg, k,
                 durations, errs, num, retReport, retErr, runs>>

\* strict and Timer variants: for i := 0; i < n; i++ { poolC <- true;
\* go execAndTimeFunction(...) }
LaunchCounted ==
  /\ variant \in {"strict", "timer"}
  /\ lpc = "run"
  /\ IF LauncherContinue
     THEN /\ PoolHasRoom
          /\ poolC' = poolC + 1
          /\ workers' = Append(workers, NewWorker)
          /\ i' = i + 1
          /\ UNCHANGED lpc
     ELSE /\ lpc' = "end"
          /\ UNCHANGED <<poolC, workers, i>>
  /\ UNCHANGED <<variant, n, p, mainpc, cancelled, observed, wpc, wg, k,
                 durations, errs, num, retReport, retErr, runs>>

\* ---- a worker goroutine: execAndTimeFunction ----

\* workers that write the result set themselves, whatever the caller does
AlwaysReceiving == TRUE

\* durC, errC and doneC are unbuffered and only Run's select receives from
\* them: a send completes only while the caller is in its aggregation loop
AggregatorReceiving == mainpc = "loop"

\* the goroutine is scheduled: startT := time.Now(); f is called
StartF(w) ==
  /\ w \in W
  /\ workers[w].pc = "spawned"
  /\ workers' = [workers EXCEPT ![w].pc = "f"]
  /\ UNCHANGED <<variant, n, p, mainpc, cancelled, observed, lpc, i, wpc, wg,
                 poolC, k, durations, errs, num, retReport, retErr, runs>>

\* a worker that reports its error without sending the duration first
AfterFErrOnly == "sendErr"

\* what the worker does first when f has returned: durC <- time.Since(startT)
AfterF == "sendDur"

\* f returns; its error and time.Since(startT) are drawn when they are handed
\* to the aggregation loop, the only place that reads them
FReturn(w) ==
  /\ w \in W
  /\ workers[w].pc = "f"
  /\ workers' = [workers EXCEPT ![w].pc = AfterF]
  /\ UNCHANGED <<variant, n, p, mainpc, cancelled, observed, lpc, i, wpc, wg,
                 poolC, k, durations, errs, num, retReport, retErr, runs>>

\* where the worker goes after durC <- ... : if err != nil { errC <- err }
AfterDur(e) == IF e THEN "sendErr" ELSE "pool"

\* durC <- time.Since(startT)  with  case d := <-durC: append(durations, d)
RecvDur(w) ==
  /\ w \in W
  /\ workers[w].pc = "sendDur"
  /\ AggregatorReceiving
  /\ \E e \in BOOLEAN, d \in Durations :
       /\ durations' = Append(durations, d)
       /\ workers' = [workers EXCEPT ![w].pc = AfterDur(e)]
  /\ UNCHANGED <<variant, n, p, mainpc, cancelled, observed, lpc, i, wpc, wg,
                 poolC, k, errs, num, retReport, retErr, runs>>

\* errC <- err  with  case err := <-errC: append(errs, err); f's error is an
\* opaque value, written "err"
RecvErr(w) ==
  /\ w \in W
  /\ workers[w].pc = "sendErr"
  /\ AggregatorReceiving
  /\ errs' = Append(errs, "err")
  /\ workers' = [workers EXCEPT ![w].pc = "pool"]
  /\ UNCHANGED <<variant, n, p, mainpc, cancelled, observed, lpc, i, wpc, wg,
                 poolC, k, durations, num, retReport, retErr, runs>>

\* where the worker goes after <-poolC
AfterPool == IF variant = "ctx" THEN "done" ELSE "wgdone"

\* <-poolC
PoolRelease(w) ==
  /\ w \in W
  /\ workers[w].pc = "pool"
  /\ poolC > 0
  /\ poolC' = poolC - 1
  /\ workers' = [workers EXCEPT ![w].pc = AfterPool]
  /\ UNCHANGED <<variant, n, p, mainpc, cancelled, observed, lpc, i, wpc, wg,
                 k, durations, errs, num, retReport, retErr, runs>>

\* wg.Done()
WgDone(w) ==
  /\ w \in W
  /\ workers[w].pc = "wgdone"
  /\ wg' = wg - 1
  /\ workers' = [workers EXCEPT ![w].pc = "end"]
  /\ UNCHANGED <<variant, n, p, mainpc, cancelled, observed, lpc, i, wpc,
                 poolC, k, durations, errs, num, retReport, retErr, runs>>

\* ---- the aggregation loop ----

\* context variant, on leaving the loop: r.total = ..., r.num = k, sort,
\* return r, nil
SealCtx(kk) ==
  /\ mainpc' = "returned"
  /\ num' = kk
  /\ durations' = Sorted(durations)
  /\ retReport' = "r"
  /\ retErr' = "nil"

\* doneC <- true (worker)  with  case <-doneC: k = k + 1; if n > 0 && k >= n
\* { break L }
RecvDone(w) ==
  /\ variant = "ctx"
  /\ w \in W
  /\ workers[w].pc = "done"
  /\ AggregatorReceiving
  /\ workers' = [workers EXCEPT ![w].pc = "end"]
  /\ k' = k + 1
  /\ IF BreakOnCount(k + 1)
     THEN SealCtx(k + 1)
     ELSE UNCHANGED <<mainpc, num, durations, retReport, retErr>>
  /\ UNCHANGED <<variant, n, p, cancelled, observed, lpc, i, wpc, wg, poolC,
                 errs, runs>>

\* case <-ctx.Done(): break L
CtxDone ==
  /\ variant = "ctx"
  /\ mainpc = "loop"
  /\ CtxDoneReady
  /\ observed' = TRUE
  /\ SealCtx(k)
  /\ UNCHANGED <<variant, n, p, cancelled, lpc, i, wpc, wg, poolC, workers, k,
                 errs, runs>>

\* ---- the waiter goroutine (strict and Timer variants) ----

\* wg.Wait() returns once the counter is zero
WaitReturns ==
  /\ wpc = "wait"
  /\ wg = 0
  /\ wpc' = "send"
  /\ UNCHANGED <<variant, n, p, mainpc, cancelled, observed, lpc, i, wg,
                 poolC, workers, k, durations, errs, num, retReport, retErr,
                 runs>>

\* doneC <- true (waiter)  with  case <-doneC: break L ; then r.total = ...,
\* sort, return
RecvWaiterDone ==
  /\ wpc = "send"
  /\ AggregatorReceiving
  /\ wpc' = "end"
  /\ mainpc' = "returned"
  /\ durations' = Sorted(durations)
  /\ retReport' = IF variant = "strict" THEN "r" ELSE retReport
  /\ UNCHANGED <<variant, n, p, cancelled, observed, lpc, i, wg, poolC,
                 workers, k, errs, num, retErr, runs>>

\* ---- specification ----
Next ==
  \/ RunCtx
  \/ RunStrict
  \/ New
  \/ TimerRun
  \/ Cancel
  \/ LaunchCtx
  \/ LaunchCounted
  \/ \E w \in W : StartF(w)
  \/ \E w \in W : FReturn(w)
  \/ \E w \in W : RecvDur(w)
  \/ \E w \in W : RecvErr(w)
  \/ \E w \in W : PoolRelease(w)
  \/ \E w \in W : WgDone(w)
  \/ \E w \in W : RecvDone(w)
  \/ CtxDone
  \/ WaitReturns
  \/ RecvWaiterDone

Spec == Init /\ [][Next]_vars

\* every goroutine is scheduled again and again, f always returns, and the
\* select of the aggregation loop serves every ready channel in the end;
\* nothing makes the environment cancel ctx
Fairness ==
  /\ WF_vars(RunCtx) /\ WF_vars(RunStrict) /\ WF_vars(New)
  /\ WF_vars(LaunchCtx) /\ WF_vars(LaunchCounted)
  /\ WF_vars(CtxDone) /\ WF_vars(WaitReturns) /\ WF_vars(RecvWaiterDone)
  /\ \A w \in 1 .. MaxStarted :
       /\ WF_vars(StartF(w)) /\ WF_vars(FReturn(w))
       /\ WF_vars(RecvDur(w)) /\ WF_vars(RecvErr(w))
       /\ WF_vars(PoolRelease(w)) /\ WF_vars(WgDone(w))
       /\ WF_vars(RecvDone(w))

FairSpec == Init /\ [][Next]_vars /\ Fairness

\* ---- vocabulary of the properties ----

\* Run is past its argument check (and New did not panic)
InRun == mainpc \in {"loop", "returned"}
\* the invocations whose call of f has begun
Started == {w \in W : workers[w].pc # "spawned"}
\* the invocations that are inside f
InFlight == {w \in W : workers[w].pc = "f"}
Finite == n > 0
Unbounded == variant = "ctx" /\ n <= 0 /\ p >= 1

\* ---- C1 ----
\* C1: in finite mode (n > 0, p >= 1) without cancellation, f is never
\* started more than n times in a run, during Run or after it has returned.
C1_StartsAtMostN ==
  (Finite /\ p >= 1 /\ ~cancelled /\ InRun) => Cardinality(Started) <= n

\* ---- C2 ----
\* C2: for n > 0 and 1 <= p <= n, when a run without cancellation has
\* returned, Executions() equals n.
C2_CountEqualsN ==
  (Finite /\ 1 <= p /\ p <= n /\ ~cancelled /\ mainpc = "returned")
    => Executions = n

C2_Witness ==
  /\ variant = "ctx" /\ n = 2 /\ p = 2 /\ ~cancelled
  /\ mainpc = "returned" /\ Executions = 2

\* ---- C3 ----
\* C3: when a run has returned, the number of recorded durations equals
\* Executions().
C3_LenEqualsCount ==
  mainpc = "returned" => Len(durations) = Executions

\* ---- C4 ----
\* C4: with p >= 1, at most p invocations are inside f at any instant.
C4_AtMostPInFlight ==
  p >= 1 => Cardinality(InFlight) <= p

C4_Witness ==
  p = 2 /\ Cardinality(InFlight) = 2 /\ Len(workers) > 2

\* ---- C5 ----
\* C5: once the aggregation loop has observed the cancellation, no new
\* invocation is started: the launcher spawns no worker any more (a worker
\* spawned after the observation calls f after it).
C5_NoStartAfterCancel ==
  [][observed => Len(workers') <= Len(workers)]_vars

\* ---- C6 ----
\* C6: when Run returns through the cancellation, every invocation that had
\* started f has handed its duration and its error to the aggregation loop.
C6_NoOutcomeDiscarded ==
  [][(mainpc = "loop" /\ mainpc' = "returned" /\ observed') =>
       \A w \in W : workers[w].pc \notin {"f", "sendDur", "sendErr"}]_vars

\* ---- C7 ----
\* C7: a finite run (n > 0, 1 <= p <= n) whose f always returns eventually
\* returns, in every variant.
C7_FiniteRunTerminates ==
  (Finite /\ 1 <= p /\ p <= n /\ mainpc = "loop") ~> (mainpc = "returned")

C7_Witness ==
  /\ variant = "strict" /\ n = 2 /\ p = 2 /\ mainpc = "returned"
  /\ Len(durations) = 2

\* ---- C8 ----
\* C8: in Run(ctx, f, n, p) with p >= 1, once ctx is cancelled while Run is
\* in progress, Run eventually returns a non-nil Report and a nil error.
C8_CancelStopsRun ==
  (variant = "ctx" /\ p >= 1 /\ cancelled /\ mainpc = "loop")
    ~> (mainpc = "returned" /\ retReport = "r" /\ retErr = "nil")

C8_Witness ==
  /\ Unbounded /\ observed /\ mainpc = "returned"
  /\ retReport = "r" /\ retErr = "nil"

\* ---- C9 ----
\* C9: in unbounded mode (n <= 0, p >= 1) Run returns only through the
\* cancellation, the launcher never leaves its loop, and each time a pool
\* slot is free a new invocation is spawned.
C9_UnboundedRunsUntilCancel ==
  /\ []((Unbounded /\ mainpc = "returned") => observed)
  /\ [](Unbounded => lpc # "end")
  /\ \A m \in 0 .. (MaxStarted - 1) :
       (Unbounded /\ mainpc = "loop" /\ Len(workers) = m /\ poolC < p)
         ~> (Len(workers) > m)

C9_Witness ==
  /\ Unbounded /\ mainpc = "loop" /\ ~cancelled
  /\ Len(workers) = MaxStarted /\ k >= 2

\* ---- C10 ----
\* C10: a run with p <= 0 fails at the argument check: an error and no
\* Report are returned, no goroutine is started and f is never invoked.
C10_InvalidPFails ==
  (p <= 0 /\ mainpc \notin {"idle", "new"} /\ ~(variant = "timer" /\ n < 0))
    => /\ mainpc = "failed"
       /\ retErr # "nil" /\ retReport = "nil"
       /\ lpc = "none" /\ wpc = "none" /\ workers = <<>>

\* ---- C11 ----
\* the invocations whose duration was received / whose error waits on errC
HandedOver ==
  {w \in W : workers[w].pc \in {"sendErr", "pool", "done", "wgdone", "end"}}
ErrPending == {w \in W : workers[w].pc = "sendErr"}

\* C11: a failure is recorded in addition to the duration, never instead of
\* it: the failures recorded or waiting on errC never outnumber the recorded
\* durations.
C11_ErrsWithinDurations ==
  Len(errs) + Cardinality(ErrPending) <= Len(durations)

C11_Witness ==
  /\ Len(errs) = 2 /\ Len(durations) = 2 /\ mainpc = "loop"
  /\ \E w \in W : workers[w].pc = "f"

\* ---- C12 ----
\* C12: in every returned Report, for p >= 1, Executions() is at least the
\* number of recorded failures.
C12_CountAtLeastErrs ==
  (mainpc = "returned" /\ p >= 1) => Executions >= Len(errs)

\* ---- C13 ----
\* every invocation that has handed over its duration returned an error
AllFailed == Len(errs) + Cardinality(ErrPending) = Len(durations)

\* C13: when a finite run without cancellation in which every invocation
\* failed has returned, len(errs) = Executions() = n.
C13_AllFailuresCounted ==
  (Finite /\ p >= 1 /\ ~cancelled /\ mainpc = "returned" /\ AllFailed)
    => (Len(errs) = Executions /\ Executions = n)

\* ---- C14 ----
IsAscending(s) == \A a, b \in DOMAIN s : a < b => s[a] <= s[b]
Occurrences(s, d) == Cardinality({a \in DOMAIN s : s[a] = d})
SamePermutation(s, t) ==
  Len(s) = Len(t) /\ \A d \in Durations : Occurrences(s, d) = Occurrences(t, d)

\* C14: when Run returns, durations is sorted ascending and is a permutation
\* of the durations received; Min() is its smallest and Max() its largest
\* element.
C14_SortedOnReturn ==
  /\ [](mainpc = "returned" =>
          /\ IsAscending(durations)
          /\ \A a \in DOMAIN durations :
                Min.value <= durations[a] /\ durations[a] <= Max.value)
  /\ [][(mainpc = "loop" /\ mainpc' = "returned")
          => SamePermutation(durations, durations')]_vars

C14_Witness ==
  /\ mainpc = "returned" /\ Len(durations) >= 2 /\ Min.value < Max.value
  /\ variant = "strict"

\* ---- C15 ----
\* the fields of the Report (of the Timer); total is a wall-clock time and
\* is not modelled
ReportFields == <<durations, errs, num>>

\* C15: the Report is modified only by the caller while it is inside Run
\* (report creation and aggregation loop); once Run has returned, no
\* goroutine of the run modifies it.
C15_SingleWriter ==
  [][ReportFields' # ReportFields => mainpc \in {"idle", "loop"}]_vars

C15_Witness ==
  /\ mainpc = "returned" /\ Len(durations) >= 1
  /\ \E w \in W : workers[w].pc = "sendDur"

\* ---- C16 ----
\* C16: at the return of any run, durations and errs hold only outcomes of
\* invocations of that run: as many durations as invocations of the run that
\* handed one over, no more errors than that; for a Timer, len(durations) is
\* Executions() after every run.
C16_FreshResultSet ==
  mainpc = "returned" =>
    /\ Len(durations) = Cardinality(HandedOver)
    /\ Len(errs) <= Cardinality(HandedOver)
    /\ variant = "timer" => Len(durations) = Executions

\* ---- C17 ----
\* the quantiles a caller may ask for
QRange == 0 .. 100
Elements(s) == {Returns(s[a]) : a \in DOMAIN s}

\* C17: on a non-empty returned result set Quantile(0) = Min(),
\* Quantile(100) = Max(), and Quantile(q) is an element of durations for
\* every q in 0..100.
C17_QuantileEnds ==
  (mainpc = "returned" /\ Len(durations) > 0) =>
    /\ Quantile(0) = Min
    /\ Quantile(100) = Max
    /\ \A q \in QRange : Quantile(q) \in Elements(durations)

\* ---- C18 ----
\* Run has returned an error and no Report before starting anything
Rejected ==
  /\ mainpc = "failed"
  /\ retErr # "nil" /\ retReport = "nil"
  /\ lpc = "none" /\ wpc = "none" /\ workers = <<>>

EmptyResult == [fails |-> "EmptyResult", value |-> 0]
\* the quantiles Print asks for
PrintQuantiles == {50, 90, 99}

\* C19: on a returned result set without durations Min(), Max(), Mean() and
\* Quantile(q) report EmptyResult.
C19_EmptyResultGuarded ==
  (mainpc = "returned" /\ Len(durations) = 0) =>
    /\ Min = EmptyResult /\ Max = EmptyResult /\ Mean = EmptyResult
    /\ \A q \in PrintQuantiles : Quantile(q) = EmptyResult

\* ---- C20 ----
\* the workers that have not executed <-poolC yet
SlotHolders ==
  {w \in W : workers[w].pc \in {"spawned", "f", "sendDur", "sendErr", "pool"}}
\* f has returned, the duration or the error is not received yet
Unreported == {w \in W : workers[w].pc \in {"sendDur", "sendErr"}}
\* f has returned, the duration, the error or the completion signal (doneC
\* send, wg.Done()) is still to come
NotSignalled ==
  {w \in W : workers[w].pc \in {"sendDur", "sendErr", "pool", "done", "wgdone"}}

\* C20 as claimed: at most p invocations have finished f with a part of
\* their outcome, completion signal included, not yet received.
C20_AtMostPNotSignalled ==
  p >= 1 => Cardinality(NotSignalled) <= p

\* C20 as amended: a worker holds its slot until f has returned and its
\* duration and error are received (the completion signal comes after the
\* release), so at most p invocations have finished f with their duration or
\* error not yet received.
C20_AtMostPUnreported ==
  p >= 1 =>
    /\ Cardinality(SlotHolders) = poolC
    /\ poolC <= p
    /\ Cardinality(Unreported) <= p

C20_Witness ==
  /\ p = 2 /\ Cardinality(Unreported) = 2
  /\ \E w \in W : workers[w].pc \in {"done", "wgdone"}

\* ---- C21 ----
\* a worker that still has a send to the aggregation loop ahead of it: durC
\* and errC in every variant, doneC as well in the context variant (in the
\* others the worker ends with wg.Done(), which never blocks)
SendAhead(w) ==
  \/ workers[w].pc \in {"spawned", "f", "sendDur", "sendErr"}
  \/ variant = "ctx" /\ workers[w].pc \in {"pool", "done"}
\* the launcher is at poolC <- true
LauncherAtPoolSend ==
  /\ lpc = "run"
  /\ IF variant = "ctx" THEN ~LauncherBreak ELSE LauncherContinue
\* the launcher is at poolC <- true, the buffer is full and no worker will
\* execute <-poolC any more
LauncherStuck ==
  /\ LauncherAtPoolSend
  /\ ~PoolHasRoom
  /\ \A w \in W : workers[w].pc # "pool"
\* the waiter is at wg.Wait() with a counter that is not zero, or at its
\* send on doneC
WaiterPending == wpc = "send" \/ (wpc = "wait" /\ wg # 0)

\* C21: when Run has returned, no goroutine of the run is left blocked for
\* ever: no worker has a send on durC, errC or doneC ahead of it (the only
\* receiver has left), the launcher is not stuck on its send to poolC and
\* the waiter is not pending.
C21_NoGoroutineLeftBlocked ==
  mainpc = "returned" =>
    /\ \A w \in W : ~SendAhead(w)
    /\ ~LauncherStuck
    /\ ~WaiterPending

\* C21 for the strict and Timer variants alone: when Run has returned every
\* worker and the waiter have ended and the launcher is past its last send.
C21_CountedVariantsQuiesce ==
  (mainpc = "returned" /\ variant # "ctx") =>
    /\ \A w \in W : workers[w].pc = "end"
    /\ ~LauncherAtPoolSend
    /\ wpc = "end" /\ wg = 0

TypeOK ==
  /\ variant \in Variants
  /\ n \in NValues /\ p \in PValues
  /\ mainpc \in {"idle", "new", "loop", "returned", "failed", "panic"}
  /\ poolC \in 0 .. MaxP
  /\ Len(workers) <= MaxStarted
====
